---- MODULE Spec2Model ----
(***************************************************************************)
(* A model of pooch's fetch pipeline (src/pooch/core.py): Pooch.fetch,     *)
(* download_action and stream_download, run by concurrent callers over a   *)
(* shared local storage directory.                                         *)
(*                                                                         *)
(* A file's content is a sequence of bytes; the file system is the set of  *)
(* existing directories, the map of the existing files and the map of the  *)
(* existing temporary files.  A path is the sequence of its components     *)
(* below the storage root: <<>> is the storage root itself.                *)
(*                                                                         *)
(* Spec is the behaviour of fetch; LoadSpec is that of Pooch.load_registry *)
(* on a Pooch that no thread calls fetch on.                               *)
(***************************************************************************)
EXTENDS Integers, Sequences, FiniteSets, TLC

\* Longest file content, in bytes.
MaxLen == 2

Byte == {1, 2}

RECURSIVE SeqsUpTo(_)
SeqsUpTo(n) ==
    IF n = 0 THEN {<<>>}
    ELSE LET shorter == SeqsUpTo(n - 1)
         IN  shorter \cup {Append(s, b) : s \in {t \in shorter : Len(t) = n - 1}, b \in Byte}

Content == SeqsUpTo(MaxLen)

\* The callers of fetch.
Procs == {"p1", "p2"}

\* File names: one at the top of the storage, two in the same subdirectory,
\* and one that the registry does not hold.
NameA == <<"a">>
NameB == <<"sub", "b">>
NameC == <<"sub", "c">>
NameX == <<"x">>
Registered == {NameA, NameB, NameC}
Names == Registered \cup {NameX}

Root == <<>>
SubDir == <<"sub">>

\* fname.parent
Parent(name) == SubSeq(name, 1, Len(name) - 1)

(***************************************************************************)
(* Hashing.  A digest is a number below 256, computed byte by byte, and    *)
(* written as two hexadecimal digits.  A hash spec is a string, modelled   *)
(* as a sequence of tokens: an optional algorithm name and ":" followed by *)
(* the hexadecimal digits.  None is the absent hash spec.                  *)
(***************************************************************************)
HexDigits == <<"0", "1", "2", "3", "4", "5", "6", "7",
               "8", "9", "a", "b", "c", "d", "e", "f">>

UpperOf == [d \in {"a", "b", "c", "d", "e", "f"} |->
              CASE d = "a" -> "A" [] d = "b" -> "B" [] d = "c" -> "C"
                [] d = "d" -> "D" [] d = "e" -> "E" [] d = "f" -> "F"]

ToUpper(s) == [i \in 1..Len(s) |-> IF s[i] \in DOMAIN UpperOf THEN UpperOf[s[i]] ELSE s[i]]

ToLower(s) ==
    [i \in 1..Len(s) |->
        IF \E d \in DOMAIN UpperOf : UpperOf[d] = s[i]
        THEN CHOOSE d \in DOMAIN UpperOf : UpperOf[d] = s[i]
        ELSE s[i]]

Algorithms == {"sha256", "md5"}

\* md5 is the weak one: its digest mixes so little that two of the contents
\* share one (<<2>> and <<1, 2>>); no two contents share a sha256 digest.
HashSeed(alg) == IF alg = "sha256" THEN 7 ELSE 11
HashMult(alg) == IF alg = "sha256" THEN 31 ELSE 128

RECURSIVE Digest(_, _)
Digest(content, alg) ==
    IF content = <<>> THEN HashSeed(alg)
    ELSE (Digest(SubSeq(content, 1, Len(content) - 1), alg) * HashMult(alg)
            + content[Len(content)]) % 256

HexOf(n) == <<HexDigits[(n \div 16) + 1], HexDigits[(n % 16) + 1]>>

\* file_hash(fname, alg): the hexadecimal digest of a file's content.
file_hash(content, alg) == HexOf(Digest(content, alg))

None == <<"None">>
EmptySpec == <<>>

ColonAt(spec) ==
    IF \E i \in 1..Len(spec) : spec[i] = ":"
    THEN CHOOSE i \in 1..Len(spec) :
            spec[i] = ":" /\ \A j \in 1..(i - 1) : spec[j] # ":"
    ELSE 0

\* The algorithm a hash spec names: the part before the first ":", or the
\* default.
hash_algorithm(spec) ==
    IF ColonAt(spec) = 0 THEN <<"sha256">> ELSE SubSeq(spec, 1, ColonAt(spec) - 1)

hash_digest(spec) == SubSeq(spec, ColonAt(spec) + 1, Len(spec))

\* A missing hash matches no file.
hash_matches_needs_hash(content, known_hash, strict) ==
    IF known_hash = None \/ known_hash = EmptySpec
    THEN IF strict THEN "HashMismatch" ELSE "false"
    ELSE LET alg == hash_algorithm(known_hash)
         IN  IF Len(alg) # 1 \/ alg[1] \notin Algorithms THEN "UnsupportedAlgorithm"
             ELSE IF ToLower(file_hash(content, alg[1])) = ToLower(hash_digest(known_hash))
                  THEN "true"
                  ELSE IF strict THEN "HashMismatch" ELSE "false"

\* An algorithm that is not supported is replaced by the default one.
hash_matches_fallback(content, known_hash, strict) ==
    IF known_hash = None \/ known_hash = EmptySpec THEN "true"
    ELSE LET named == hash_algorithm(known_hash)
             alg == IF Len(named) # 1 \/ named[1] \notin Algorithms THEN <<"sha256">> ELSE named
         IN  IF ToLower(file_hash(content, alg[1])) = ToLower(hash_digest(known_hash))
             THEN "true"
             ELSE IF strict THEN "HashMismatch" ELSE "false"

\* hash_matches(fname, known_hash, strict): "true", "false", or the error
\* raised ("HashMismatch" under strict, "UnsupportedAlgorithm").
hash_matches(content, known_hash, strict) ==
    IF known_hash = None \/ known_hash = EmptySpec THEN "true"
    ELSE LET alg == hash_algorithm(known_hash)
         IN  IF Len(alg) # 1 \/ alg[1] \notin Algorithms THEN "UnsupportedAlgorithm"
             ELSE IF ToLower(file_hash(content, alg[1])) = ToLower(hash_digest(known_hash))
                  THEN "true"
                  ELSE IF strict THEN "HashMismatch" ELSE "false"


(***************************************************************************)
(* The registry and the initial local storage.                             *)
(***************************************************************************)
\* The remote content that the registry's hashes were computed from.
Good == <<1, 2>>
Stale == <<2, 1>>

SpecOf(content, alg) == <<alg, ":">> \o file_hash(content, alg)

\* The hash specs a registry line may hold for a file.
HashSpecs ==
    { SpecOf(Good, "sha256"),
      file_hash(Good, "sha256"),
      ToUpper(file_hash(Good, "sha256")),
      SpecOf(Good, "md5"),
      <<"blah", ":", "1", "2">>,
      None,
      EmptySpec }

Registries ==
    { [n \in Registered |-> IF n = NameA THEN h ELSE SpecOf(Good, "sha256")] : h \in HashSpecs }

\* A dict as a function: a \cup b with b's entries winning.
Put(f, k, v) == [x \in DOMAIN f \cup {k} |-> IF x = k THEN v ELSE f[x]]
Drop(f, k) == [x \in DOMAIN f \ {k} |-> f[x]]

InitialFiles ==
    { f \in UNION { [D -> Content] : D \in SUBSET {NameA, NameB, NameX} } :
        /\ NameB \in DOMAIN f => f[NameB] \in {Good, Stale}
        /\ NameX \in DOMAIN f => f[NameX] = Stale }

\* The directories that hold the files of f.
DirsOf(f) == {Parent(n) : n \in DOMAIN f} \cup (IF DOMAIN f = {} THEN {} ELSE {Root})

\* URLs, as strings of tokens: the scheme comes first.
BaseUrl == <<"https", "://", "base.org/data/">>
OverrideUrl == <<"ftp", "://", "other.org/", "b.dat">>

\* Pooch.urls: the file in the subdirectory has a URL of its own.
InitialUrls == [n \in {NameB} |-> OverrideUrl]

\* A file name as the string that the registry holds: the components
\* joined by "/".
RECURSIVE NameString(_)
NameString(name) ==
    IF Len(name) <= 1 THEN name
    ELSE <<name[1], "/">> \o NameString(Tail(name))

\* Python's None as an argument
NoArg == "None"

\* The downloader and the processor a caller may pass
CustomDownloader == "custom"
Hook == "hook"

VARIABLES
    registry,    \* Pooch.registry: name -> hash spec
    dirs,        \* the directories that exist
    files,       \* the files that exist below the storage root: name -> content
    tmpfiles,    \* the temporary files that exist: caller -> [dir, content]
    pc,          \* where each caller is in fetch
    fname,       \* fetch's argument
    known_hash,  \* fetch's local: registry[fname]
    action,      \* fetch's locals action and verb, <<>> before download_action
    err,         \* the exception the call is ending with, "" if none
    result,      \* the value fetch returned, <<>> if none
    log,         \* the log records the call emitted
    ntransport,  \* how many times the call invoked the downloader
    pre,         \* the target's content when the call began, {} if no file
    interfered,  \* another call installed onto this call's target since it began
    again,       \* the caller's previous call got this name by a transfer
    callers,     \* the threads of the program that call fetch
    urls,        \* Pooch.urls: name -> URL, for the names that have their own
    dlarg,       \* fetch's argument downloader
    processor,   \* fetch's argument processor
    url,         \* fetch's local url
    downloader,  \* fetch's local downloader when stream_download is called
    chosen,      \* the URLs choose_downloader was called with by the call
    calls,       \* the calls of a downloader by the call: <<downloader, url>>
    hookcalls,   \* the calls of the processor by the call: <<path, action, pooch>>
    installed,   \* the content the call moved onto its target, {} if none
    fin,         \* load_registry's argument: the lines of the registry file
    linenum,     \* how many lines load_registry has gone through
    lpc,         \* where load_registry is: "idle", "reading", "done", "failed"
    lerr         \* the exception load_registry raised, <<>> if none

vars == <<registry, dirs, files, tmpfiles, pc, fname, known_hash, action, err,
          result, log, ntransport, pre, interfered, again, callers, urls, dlarg,
          processor, url, downloader, chosen, calls, hookcalls, installed,
          fin, linenum, lpc, lerr>>

\* What a call of load_registry is given and where it is.
loadvars == <<fin, linenum, lpc, lerr>>

\* What a call of fetch is given and what it records of its transfer.
callvars == <<urls, dlarg, processor, url, downloader, chosen, calls, hookcalls, installed>>

fsvars == <<dirs, files, tmpfiles>>

\* Pooch.abspath / fname, as a string
AbsPath == <<"abspath">>
full_path(name) == AbsPath \o name

\* The registry of the program with concurrent callers: one of the files in
\* the subdirectory has an md5 hash, which two remote contents match.
ConcurrentRegistry ==
    [n \in Registered |-> IF n = NameC THEN SpecOf(Good, "md5") ELSE SpecOf(Good, "sha256")]

\* The names that concurrent callers fetch: the two files of the
\* subdirectory and the unregistered one.
ConcurrentNames == {NameB, NameC, NameX}

\* One caller with any registry and any initial storage, or two concurrent
\* callers of the files in the subdirectory, with a stale or missing copy.
Init ==
    /\ \/ /\ callers = {"p1"}
          /\ registry \in Registries
          /\ files \in InitialFiles
       \/ /\ callers = Procs
          /\ registry = ConcurrentRegistry
          /\ files \in {f \in InitialFiles : \A n \in DOMAIN f : n = NameB /\ f[n] = Stale}
    /\ dirs \in {DirsOf(files) \cup d : d \in {{}, {Root}, {Root, SubDir}}}
    /\ tmpfiles = <<>>
    /\ pc = [p \in Procs |-> "idle"]
    /\ fname = [p \in Procs |-> <<>>]
    /\ known_hash = [p \in Procs |-> None]
    /\ action = [p \in Procs |-> <<>>]
    /\ err = [p \in Procs |-> ""]
    /\ result = [p \in Procs |-> <<>>]
    /\ log = [p \in Procs |-> <<>>]
    /\ ntransport = [p \in Procs |-> 0]
    /\ pre = [p \in Procs |-> {}]
    /\ interfered = [p \in Procs |-> FALSE]
    /\ again = [p \in Procs |-> FALSE]
    /\ urls = InitialUrls
    /\ dlarg = [p \in Procs |-> NoArg]
    /\ processor = [p \in Procs |-> NoArg]
    /\ url = [p \in Procs |-> <<>>]
    /\ downloader = [p \in Procs |-> NoArg]
    /\ chosen = [p \in Procs |-> <<>>]
    /\ calls = [p \in Procs |-> <<>>]
    /\ hookcalls = [p \in Procs |-> <<>>]
    /\ installed = [p \in Procs |-> {}]
    /\ fin = <<>>
    /\ linenum = 0
    /\ lpc = "idle"
    /\ lerr = <<>>


(***************************************************************************)
(* Pooch.fetch, one action per step of a call.                             *)
(***************************************************************************)
\* Exception classes of the errors a call can end with.
ExceptionClass(kind) ==
    CASE kind \in {"NotInRegistry", "HashMismatch", "UnsupportedAlgorithm"} -> "ValueError"
      [] kind = "FileExistsError" -> "OSError"
      [] OTHER -> "TransportError"

TransportFailures == {"ConnectionFailure", "TransportFailure", "Timeout"}

\* The caller is inside a call of fetch.
Active(p) == pc[p] \notin {"idle", "done", "failed"}

\* The call raises: nothing below the raise runs.
Raise(p, kind) ==
    /\ pc' = [pc EXCEPT ![p] = "failed"]
    /\ err' = [err EXCEPT ![p] = kind]

\* A file that is in the local storage is taken as known.
assert_file_in_registry_or_local(name) == name \in DOMAIN registry \/ name \in DOMAIN files

\* Pooch._assert_file_in_registry: FALSE when it raises
assert_file_in_registry(name) == name \in DOMAIN registry

\* A name that is not in the registry is entered into it, without a hash,
\* and fetched.
Fetch_Registers(p, name, proc, dl) ==
    /\ p \in callers
    /\ ~Active(p)
    /\ callers = Procs => (name \in ConcurrentNames /\ proc = NoArg /\ dl = NoArg)
    /\ proc = NoArg \/ dl = NoArg
    /\ fname' = [fname EXCEPT ![p] = name]
    /\ processor' = [processor EXCEPT ![p] = proc]
    /\ dlarg' = [dlarg EXCEPT ![p] = dl]
    /\ downloader' = [downloader EXCEPT ![p] = dl]
    /\ url' = [url EXCEPT ![p] = <<>>]
    /\ chosen' = [chosen EXCEPT ![p] = <<>>]
    /\ calls' = [calls EXCEPT ![p] = <<>>]
    /\ hookcalls' = [hookcalls EXCEPT ![p] = <<>>]
    /\ installed' = [installed EXCEPT ![p] = {}]
    /\ known_hash' = [known_hash EXCEPT ![p] = None]
    /\ action' = [action EXCEPT ![p] = <<>>]
    /\ result' = [result EXCEPT ![p] = <<>>]
    /\ log' = [log EXCEPT ![p] = <<>>]
    /\ ntransport' = [ntransport EXCEPT ![p] = 0]
    /\ pre' = [pre EXCEPT ![p] = IF name \in DOMAIN files THEN {files[name]} ELSE {}]
    /\ interfered' = [interfered EXCEPT ![p] = FALSE]
    /\ again' = [again EXCEPT ![p] =
                    /\ pc[p] = "done"
                    /\ fname[p] = name
                    /\ action[p][1] \in {"download", "update"}]
    /\ pc' = [pc EXCEPT ![p] = "makedirs"]
    /\ err' = [err EXCEPT ![p] = ""]
    /\ registry' = IF assert_file_in_registry(name) THEN registry ELSE Put(registry, name, None)
    /\ UNCHANGED <<fsvars, callers, loadvars, urls>>

\* fetch does not check the registry itself: the check in get_url, after
\* the storage directory is made, is the first.
Fetch_ChecksLater(p, name, proc, dl) ==
    /\ p \in callers
    /\ ~Active(p)
    /\ callers = Procs => (name \in ConcurrentNames /\ proc = NoArg /\ dl = NoArg)
    /\ proc = NoArg \/ dl = NoArg
    /\ fname' = [fname EXCEPT ![p] = name]
    /\ processor' = [processor EXCEPT ![p] = proc]
    /\ dlarg' = [dlarg EXCEPT ![p] = dl]
    /\ downloader' = [downloader EXCEPT ![p] = dl]
    /\ url' = [url EXCEPT ![p] = <<>>]
    /\ chosen' = [chosen EXCEPT ![p] = <<>>]
    /\ calls' = [calls EXCEPT ![p] = <<>>]
    /\ hookcalls' = [hookcalls EXCEPT ![p] = <<>>]
    /\ installed' = [installed EXCEPT ![p] = {}]
    /\ known_hash' = [known_hash EXCEPT ![p] = None]
    /\ action' = [action EXCEPT ![p] = <<>>]
    /\ result' = [result EXCEPT ![p] = <<>>]
    /\ log' = [log EXCEPT ![p] = <<>>]
    /\ ntransport' = [ntransport EXCEPT ![p] = 0]
    /\ pre' = [pre EXCEPT ![p] = IF name \in DOMAIN files THEN {files[name]} ELSE {}]
    /\ interfered' = [interfered EXCEPT ![p] = FALSE]
    /\ again' = [again EXCEPT ![p] =
                    /\ pc[p] = "done"
                    /\ fname[p] = name
                    /\ action[p][1] \in {"download", "update"}]
    /\ pc' = [pc EXCEPT ![p] = "makedirs"]
    /\ err' = [err EXCEPT ![p] = ""]
    /\ UNCHANGED <<registry, fsvars, callers, loadvars, urls>>

\* A call begins, the caller's previous call (if any) having ended:
\* fetch(name, processor, downloader) checks the registry first.  A caller
\* passes a processor or a downloader or neither; concurrent callers pass
\* neither.
Fetch(p, name, proc, dl) ==
    /\ p \in callers
    /\ ~Active(p)
    /\ callers = Procs => (name \in ConcurrentNames /\ proc = NoArg /\ dl = NoArg)
    /\ proc = NoArg \/ dl = NoArg
    /\ fname' = [fname EXCEPT ![p] = name]
    /\ processor' = [processor EXCEPT ![p] = proc]
    /\ dlarg' = [dlarg EXCEPT ![p] = dl]
    /\ downloader' = [downloader EXCEPT ![p] = dl]
    /\ url' = [url EXCEPT ![p] = <<>>]
    /\ chosen' = [chosen EXCEPT ![p] = <<>>]
    /\ calls' = [calls EXCEPT ![p] = <<>>]
    /\ hookcalls' = [hookcalls EXCEPT ![p] = <<>>]
    /\ installed' = [installed EXCEPT ![p] = {}]
    /\ known_hash' = [known_hash EXCEPT ![p] = None]
    /\ action' = [action EXCEPT ![p] = <<>>]
    /\ result' = [result EXCEPT ![p] = <<>>]
    /\ log' = [log EXCEPT ![p] = <<>>]
    /\ ntransport' = [ntransport EXCEPT ![p] = 0]
    /\ pre' = [pre EXCEPT ![p] = IF name \in DOMAIN files THEN {files[name]} ELSE {}]
    /\ interfered' = [interfered EXCEPT ![p] = FALSE]
    /\ again' = [again EXCEPT ![p] =
                    /\ pc[p] = "done"
                    /\ fname[p] = name
                    /\ action[p][1] \in {"download", "update"}]
    /\ IF assert_file_in_registry(name)
       THEN /\ pc' = [pc EXCEPT ![p] = "makedirs"]
            /\ err' = [err EXCEPT ![p] = ""]
       ELSE Raise(p, "NotInRegistry")
    /\ UNCHANGED <<registry, fsvars, callers, loadvars, urls>>

\* os.makedirs(name): the directory and the missing ones above it
makedirs(d) == dirs \cup {SubSeq(d, 1, k) : k \in 0..Len(d)}

\* os.makedirs raises FileExistsError when the directory exists and
\* exist_ok is not set
makedirs_raises(d, exist_ok) == d \in dirs /\ ~exist_ok

\* os.makedirs(str(self.abspath), exist_ok=True)
MakeStorage(p) ==
    /\ pc[p] = "makedirs"
    /\ IF makedirs_raises(Root, TRUE)
       THEN Raise(p, "FileExistsError") /\ dirs' = dirs
       ELSE /\ dirs' = makedirs(Root)
            /\ pc' = [pc EXCEPT ![p] = "resolve"]
            /\ err' = err
    /\ UNCHANGED <<registry, files, tmpfiles, fname, known_hash, action, result, log,
                   ntransport, pre, interfered, again, callers, loadvars, callvars>>

\* The negation of the hash check is lost: a matching file is updated, a
\* stale one fetched.
download_action_inverted(path, hash) ==
    IF path \notin DOMAIN files THEN <<"download", "Downloading">>
    ELSE LET m == hash_matches(files[path], hash, FALSE)
         IN  CASE m = "true" -> <<"update", "Updating">>
               [] m = "false" -> <<"fetch", "Fetching">>
               [] OTHER -> <<"raise", m>>

\* download_action(path, known_hash): <<action, verb>>, or <<"raise", error>>
\* when hash_matches raises.  path.exists() and the read of the file by
\* hash_matches are taken as one step: no file is ever removed, so a file
\* replaced between the two gives what a later call of download_action gives.
download_action(path, hash) ==
    IF path \notin DOMAIN files THEN <<"download", "Downloading">>
    ELSE LET m == hash_matches(files[path], hash, FALSE)
         IN  CASE m = "false" -> <<"update", "Updating">>
               [] m = "true" -> <<"fetch", "Fetching">>
               [] OTHER -> <<"raise", m>>

\* The base URL is joined with the file's own URL, too.
get_url_joined(name) ==
    BaseUrl \o (IF name \in DOMAIN urls THEN urls[name] ELSE NameString(name))

\* Pooch.get_url, past its registry check
get_url(name) ==
    IF name \in DOMAIN urls THEN urls[name] ELSE BaseUrl \o NameString(name)

\* choose_downloader(url): by the scheme of the URL
choose_downloader(u) == IF u # <<>> /\ u[1] = "ftp" THEN "FTPDownloader" ELSE "HTTPDownloader"

\* A downloader is chosen from the URL whether or not one was passed.
downloader_is_None_always(d) == TRUE

\* if downloader is None:
downloader_is_None(d) == d = NoArg

\* if processor is not None: return processor(...) -- else: return str(full_path)
Finish(p) ==
    IF processor[p] = NoArg
    THEN /\ pc' = [pc EXCEPT ![p] = "done"]
         /\ result' = [result EXCEPT ![p] = full_path(fname[p])]
    ELSE /\ pc' = [pc EXCEPT ![p] = "process"]
         /\ result' = result

\* url = self.get_url(fname), which checks the registry again; known_hash =
\* self.registry[fname]; download_action; for the actions in logged, the log
\* record; for a download or an update, the choice of the downloader when
\* none was passed.  A "fetch" action skips the transfer.
FetchResolve(p, logged) ==
    /\ pc[p] = "resolve"
    /\ LET hash == IF assert_file_in_registry(fname[p]) THEN registry[fname[p]] ELSE None
           act == IF assert_file_in_registry(fname[p])
                  THEN download_action(fname[p], hash)
                  ELSE <<"raise", "NotInRegistry">>
           u == IF assert_file_in_registry(fname[p]) THEN get_url(fname[p]) ELSE <<>>
       IN  /\ known_hash' = [known_hash EXCEPT ![p] = hash]
           /\ url' = [url EXCEPT ![p] = u]
           /\ IF act[1] = "raise"
              THEN /\ Raise(p, act[2])
                   /\ UNCHANGED <<action, log, result, downloader, chosen>>
              ELSE /\ action' = [action EXCEPT ![p] = act]
                   /\ err' = err
                   /\ log' = IF act[1] \in logged
                             THEN [log EXCEPT ![p] = Append(@, act[2])]
                             ELSE log
                   /\ IF act[1] \in {"download", "update"}
                      THEN /\ IF downloader_is_None(downloader[p])
                              THEN /\ downloader' = [downloader EXCEPT ![p] = choose_downloader(u)]
                                   /\ chosen' = [chosen EXCEPT ![p] = Append(@, u)]
                              ELSE UNCHANGED <<downloader, chosen>>
                           /\ pc' = [pc EXCEPT ![p] = "parent"]
                           /\ result' = result
                      ELSE /\ UNCHANGED <<downloader, chosen>>
                           /\ Finish(p)
    /\ UNCHANGED <<registry, fsvars, fname, ntransport, pre, interfered, again, callers, loadvars,
                   urls, dlarg, processor, calls, hookcalls, installed>>

\* The log record is emitted for every action, also for "fetch".
Resolve_LogAlways(p) == FetchResolve(p, {"download", "update", "fetch"})

\* The log record is not emitted.
Resolve_NoLog(p) == FetchResolve(p, {})

\* Lines 339 to 350 of fetch.
Resolve(p) == FetchResolve(p, {"download", "update"})


(***************************************************************************)
(* stream_download, inside fetch.                                          *)
(***************************************************************************)
\* if not fname.parent.exists():
CheckParent(p) ==
    /\ pc[p] = "parent"
    /\ pc' = [pc EXCEPT ![p] = IF Parent(fname[p]) \in dirs THEN "mktemp" ELSE "mkparent"]
    /\ UNCHANGED <<registry, fsvars, fname, known_hash, action, err, result, log,
                   ntransport, pre, interfered, again, callers, loadvars, callvars>>

\*     os.makedirs(str(fname.parent))
MakeParent(p) ==
    /\ pc[p] = "mkparent"
    /\ IF makedirs_raises(Parent(fname[p]), FALSE)
       THEN Raise(p, "FileExistsError") /\ dirs' = dirs
       ELSE /\ dirs' = makedirs(Parent(fname[p]))
            /\ pc' = [pc EXCEPT ![p] = "mktemp"]
            /\ err' = err
    /\ UNCHANGED <<registry, files, tmpfiles, fname, known_hash, action, result, log,
                   ntransport, pre, interfered, again, callers, loadvars, callvars>>

\* temporary_file(path): a new, empty file in the directory path
temporary_file(path) == [dir |-> path, content |-> <<>>]

\* The temporary file is made in the storage root, whatever the name.
EnterTemp_InRoot(p) ==
    /\ pc[p] = "mktemp"
    /\ tmpfiles' = Put(tmpfiles, p, temporary_file(Root))
    /\ pc' = [pc EXCEPT ![p] = "transfer"]
    /\ UNCHANGED <<registry, dirs, files, fname, known_hash, action, err, result, log,
                   ntransport, pre, interfered, again, callers, loadvars, callvars>>

\* with temporary_file(path=str(fname.parent)) as tmp:
EnterTemp(p) ==
    /\ pc[p] = "mktemp"
    /\ tmpfiles' = Put(tmpfiles, p, temporary_file(Parent(fname[p])))
    /\ pc' = [pc EXCEPT ![p] = "transfer"]
    /\ UNCHANGED <<registry, dirs, files, fname, known_hash, action, err, result, log,
                   ntransport, pre, interfered, again, callers, loadvars, callvars>>

\*     downloader(url, tmp, pooch): the call
Invoke(p) ==
    /\ pc[p] = "transfer"
    /\ ntransport' = [ntransport EXCEPT ![p] = @ + 1]
    /\ calls' = [calls EXCEPT ![p] = Append(@, <<downloader[p], url[p]>>)]
    /\ pc' = [pc EXCEPT ![p] = "streaming"]
    /\ UNCHANGED <<registry, fsvars, fname, known_hash, action, err, result, log,
                   pre, interfered, again, callers, loadvars, urls, dlarg, processor, url,
                   downloader, chosen, hookcalls, installed>>

\* The downloader is given the target path: the bytes go to the target too.
Stream_ToTarget(p, b) ==
    /\ pc[p] = "streaming"
    /\ Len(tmpfiles[p].content) < MaxLen
    /\ tmpfiles' = [tmpfiles EXCEPT ![p].content = Append(@, b)]
    /\ files' = Put(files, fname[p], Append(tmpfiles[p].content, b))
    /\ UNCHANGED <<registry, dirs, pc, fname, known_hash, action, err, result,
                   log, ntransport, pre, interfered, again, callers, loadvars, callvars>>

\* The downloader writes the next byte of the remote content to tmp.
Stream(p, b) ==
    /\ pc[p] = "streaming"
    /\ Len(tmpfiles[p].content) < MaxLen
    /\ tmpfiles' = [tmpfiles EXCEPT ![p].content = Append(@, b)]
    /\ UNCHANGED <<registry, dirs, files, pc, fname, known_hash, action, err, result,
                   log, ntransport, pre, interfered, again, callers, loadvars, callvars>>

\* The move follows the downloader's return at once; the check is left out.
Delivered_ThenMove(p) ==
    /\ pc[p] = "streaming"
    /\ pc' = [pc EXCEPT ![p] = "move"]
    /\ UNCHANGED <<registry, fsvars, fname, known_hash, action, err, result, log,
                   ntransport, pre, interfered, again, callers, loadvars, callvars>>

\* The downloader returns: the remote content is all in tmp.
Delivered(p) ==
    /\ pc[p] = "streaming"
    /\ pc' = [pc EXCEPT ![p] = "verify"]
    /\ UNCHANGED <<registry, fsvars, fname, known_hash, action, err, result, log,
                   ntransport, pre, interfered, again, callers, loadvars, callvars>>

\* The with block is left by an exception: temporary_file's exit runs next.
RaiseInWith(p, kind) ==
    /\ pc' = [pc EXCEPT ![p] = "exit"]
    /\ err' = [err EXCEPT ![p] = kind]

\* The downloader raises, whatever part of the content it wrote so far.
TransportFails(p, kind) ==
    /\ pc[p] = "streaming"
    /\ RaiseInWith(p, kind)
    /\ UNCHANGED <<registry, fsvars, fname, known_hash, action, result, log,
                   ntransport, pre, interfered, again, callers, loadvars, callvars>>

\* The result of the check is not looked at: the move always follows.
Verify_Unchecked(p) ==
    /\ pc[p] = "verify"
    /\ pc' = [pc EXCEPT ![p] = "move"]
    /\ UNCHANGED <<registry, fsvars, fname, known_hash, action, err, result, log,
                   ntransport, pre, interfered, again, callers, loadvars, callvars>>

\* strict is left at its default: a mismatch returns False, which nothing reads.
Verify_NotStrict(p) ==
    /\ pc[p] = "verify"
    /\ LET m == hash_matches(tmpfiles[p].content, known_hash[p], FALSE)
       IN  IF m \in {"true", "false"}
           THEN pc' = [pc EXCEPT ![p] = "move"] /\ err' = err
           ELSE RaiseInWith(p, m)
    /\ UNCHANGED <<registry, fsvars, fname, known_hash, action, result, log,
                   ntransport, pre, interfered, again, callers, loadvars, callvars>>

\*     hash_matches(tmp, known_hash, strict=True)
Verify(p) ==
    /\ pc[p] = "verify"
    /\ LET m == hash_matches(tmpfiles[p].content, known_hash[p], TRUE)
       IN  IF m = "true"
           THEN pc' = [pc EXCEPT ![p] = "move"] /\ err' = err
           ELSE RaiseInWith(p, m)
    /\ UNCHANGED <<registry, fsvars, fname, known_hash, action, result, log,
                   ntransport, pre, interfered, again, callers, loadvars, callvars>>

\* The move does not replace a file that is already at the target.
Move_KeepExisting(p) ==
    /\ pc[p] = "move"
    /\ files' = IF fname[p] \in DOMAIN files THEN files
                ELSE Put(files, fname[p], tmpfiles[p].content)
    /\ tmpfiles' = IF fname[p] \in DOMAIN files THEN tmpfiles ELSE Drop(tmpfiles, p)
    /\ interfered' = interfered
    /\ installed' = IF fname[p] \in DOMAIN files THEN installed
                    ELSE [installed EXCEPT ![p] = {tmpfiles[p].content}]
    /\ pc' = [pc EXCEPT ![p] = "exit"]
    /\ UNCHANGED <<registry, dirs, fname, known_hash, action, err, result, log,
                   ntransport, pre, again, callers, loadvars, urls, dlarg, processor, url,
                   downloader, chosen, calls, hookcalls>>

\* The move's destination is the name without its directory.
Move_Basename(p) ==
    /\ pc[p] = "move"
    /\ files' = Put(files, <<fname[p][Len(fname[p])]>>, tmpfiles[p].content)
    /\ tmpfiles' = Drop(tmpfiles, p)
    /\ interfered' = interfered
    /\ installed' = [installed EXCEPT ![p] = {tmpfiles[p].content}]
    /\ pc' = [pc EXCEPT ![p] = "exit"]
    /\ UNCHANGED <<registry, dirs, fname, known_hash, action, err, result, log,
                   ntransport, pre, again, callers, loadvars, urls, dlarg, processor, url,
                   downloader, chosen, calls, hookcalls>>

\* The move gives way to a concurrent call that installed first: the
\* target keeps what that call put there.
Move_FirstWins(p) ==
    /\ pc[p] = "move"
    /\ files' = IF interfered[p] THEN files ELSE Put(files, fname[p], tmpfiles[p].content)
    /\ tmpfiles' = Drop(tmpfiles, p)
    /\ interfered' = [q \in Procs |->
                        IF q # p /\ fname[q] = fname[p] THEN TRUE
                        ELSE interfered[q]]
    /\ installed' = [installed EXCEPT ![p] = {tmpfiles[p].content}]
    /\ pc' = [pc EXCEPT ![p] = "exit"]
    /\ UNCHANGED <<registry, dirs, fname, known_hash, action, err, result, log,
                   ntransport, pre, again, callers, loadvars, urls, dlarg, processor, url,
                   downloader, chosen, calls, hookcalls>>

\*     shutil.move(tmp, str(fname)): a rename within one directory
Move(p) ==
    /\ pc[p] = "move"
    /\ files' = Put(files, fname[p], tmpfiles[p].content)
    /\ tmpfiles' = Drop(tmpfiles, p)
    /\ interfered' = [q \in Procs |->
                        IF q # p /\ fname[q] = fname[p] THEN TRUE
                        ELSE interfered[q]]
    /\ installed' = [installed EXCEPT ![p] = {tmpfiles[p].content}]
    /\ pc' = [pc EXCEPT ![p] = "exit"]
    /\ UNCHANGED <<registry, dirs, fname, known_hash, action, err, result, log,
                   ntransport, pre, again, callers, loadvars, urls, dlarg, processor, url,
                   downloader, chosen, calls, hookcalls>>

\* temporary_file's exit: the file is removed if it is still there.
temporary_file_exit(p) == IF p \in DOMAIN tmpfiles THEN Drop(tmpfiles, p) ELSE tmpfiles

\* No with block: an exception leaves stream_download with tmp in place.
ExitTemp_NoCleanup(p) ==
    /\ pc[p] = "exit"
    /\ tmpfiles' = IF err[p] = "" THEN temporary_file_exit(p) ELSE tmpfiles
    /\ IF err[p] = ""
       THEN Finish(p)
       ELSE /\ pc' = [pc EXCEPT ![p] = "failed"]
            /\ result' = result
    /\ UNCHANGED <<registry, dirs, files, fname, known_hash, action, err, log,
                   ntransport, pre, interfered, again, callers, loadvars, callvars>>

\* The exception is caught on the way out and the path returned.
ExitTemp_Swallow(p) ==
    /\ pc[p] = "exit"
    /\ tmpfiles' = temporary_file_exit(p)
    /\ Finish(p)
    /\ err' = [err EXCEPT ![p] = ""]
    /\ UNCHANGED <<registry, dirs, files, fname, known_hash, action, log,
                   ntransport, pre, interfered, again, callers, loadvars, callvars>>

\* A failed transfer is tried once more before the exception leaves fetch.
ExitTemp_Retry(p) ==
    /\ pc[p] = "exit"
    /\ tmpfiles' = temporary_file_exit(p)
    /\ IF err[p] = ""
       THEN Finish(p) /\ err' = err
       ELSE IF err[p] \in TransportFailures /\ ntransport[p] < 2
            THEN /\ pc' = [pc EXCEPT ![p] = "mktemp"]
                 /\ err' = [err EXCEPT ![p] = ""]
                 /\ result' = result
            ELSE /\ pc' = [pc EXCEPT ![p] = "failed"]
                 /\ err' = err
                 /\ result' = result
    /\ UNCHANGED <<registry, dirs, files, fname, known_hash, action, log,
                   ntransport, pre, interfered, again, callers, loadvars, callvars>>

\* On an exception the clean-up removes the target along with tmp.
ExitTemp_RemovesTarget(p) ==
    /\ pc[p] = "exit"
    /\ tmpfiles' = temporary_file_exit(p)
    /\ files' = IF err[p] = "" THEN files ELSE Drop(files, fname[p])
    /\ IF err[p] = ""
       THEN Finish(p)
       ELSE /\ pc' = [pc EXCEPT ![p] = "failed"]
            /\ result' = result
    /\ UNCHANGED <<registry, dirs, fname, known_hash, action, err, log,
                   ntransport, pre, interfered, again, callers, loadvars, callvars>>

\* The with block ends, normally or by an exception: stream_download
\* returns to fetch, or the exception leaves fetch.
ExitTemp(p) ==
    /\ pc[p] = "exit"
    /\ tmpfiles' = temporary_file_exit(p)
    /\ IF err[p] = ""
       THEN Finish(p)
       ELSE /\ pc' = [pc EXCEPT ![p] = "failed"]
            /\ result' = result
    /\ UNCHANGED <<registry, dirs, files, fname, known_hash, action, err, log,
                   ntransport, pre, interfered, again, callers, loadvars, callvars>>

\* What the processor returns: a value made from its arguments that is not
\* the path.
HookReturn(args) == <<"processed">> \o args[1] \o <<args[2]>>

\* The processor is called for a call that failed, too.
Process_AlsoOnFailure(p) ==
    /\ pc[p] \in {"process", "failed"}
    /\ processor[p] # NoArg
    /\ hookcalls[p] = <<>>
    /\ LET args == <<full_path(fname[p]), IF action[p] = <<>> THEN "" ELSE action[p][1], "pooch">>
       IN  /\ hookcalls' = [hookcalls EXCEPT ![p] = Append(@, args)]
           /\ result' = [result EXCEPT ![p] = HookReturn(args)]
    /\ pc' = [pc EXCEPT ![p] = IF pc[p] = "process" THEN "done" ELSE "failed"]
    /\ UNCHANGED <<registry, fsvars, fname, known_hash, action, err, log, ntransport,
                   pre, interfered, again, callers, loadvars, urls, dlarg, processor, url,
                   downloader, chosen, calls, installed>>

\* The action is computed again for the processor, after the transfer:
\* the file that was just installed resolves to "fetch".
Process_ActionAfterTransfer(p) ==
    /\ pc[p] = "process"
    /\ LET args == <<full_path(fname[p]), download_action(fname[p], known_hash[p])[1], "pooch">>
       IN  /\ hookcalls' = [hookcalls EXCEPT ![p] = Append(@, args)]
           /\ result' = [result EXCEPT ![p] = HookReturn(args)]
    /\ pc' = [pc EXCEPT ![p] = "done"]
    /\ UNCHANGED <<registry, fsvars, fname, known_hash, action, err, log, ntransport,
                   pre, interfered, again, callers, loadvars, urls, dlarg, processor, url,
                   downloader, chosen, calls, installed>>

\* return processor(str(full_path), action, self)
Process(p) ==
    /\ pc[p] = "process"
    /\ LET args == <<full_path(fname[p]), action[p][1], "pooch">>
       IN  /\ hookcalls' = [hookcalls EXCEPT ![p] = Append(@, args)]
           /\ result' = [result EXCEPT ![p] = HookReturn(args)]
    /\ pc' = [pc EXCEPT ![p] = "done"]
    /\ UNCHANGED <<registry, fsvars, fname, known_hash, action, err, log, ntransport,
                   pre, interfered, again, callers, loadvars, urls, dlarg, processor, url,
                   downloader, chosen, calls, installed>>

Next ==
    \E p \in Procs :
        \/ \E name \in Names, proc \in {NoArg, Hook}, dl \in {NoArg, CustomDownloader} :
              Fetch(p, name, proc, dl)
        \/ MakeStorage(p)
        \/ Resolve(p)
        \/ CheckParent(p)
        \/ MakeParent(p)
        \/ EnterTemp(p)
        \/ Invoke(p)
        \/ \E b \in Byte : Stream(p, b)
        \/ Delivered(p)
        \/ \E kind \in TransportFailures : TransportFails(p, kind)
        \/ Verify(p)
        \/ Move(p)
        \/ ExitTemp(p)
        \/ Process(p)

Spec == Init /\ [][Next]_vars


(***************************************************************************)
(* Pooch.load_registry, one action per line of the file.                   *)
(***************************************************************************)
\* Most lines in a registry file.
MaxLines == 2

\* A line is a string of characters; these are the ones str.strip and
\* str.split take as white space.
Whitespace == {" ", "\t", "\n"}

\* line.strip()
RECURSIVE strip(_)
strip(line) ==
    IF line = <<>> THEN <<>>
    ELSE IF Head(line) \in Whitespace THEN strip(Tail(line))
    ELSE IF line[Len(line)] \in Whitespace THEN strip(SubSeq(line, 1, Len(line) - 1))
    ELSE line

\* split on every single blank, as str.split(" ") does: two blanks in a row
\* have an empty element between them.
RECURSIVE split_single(_)
split_single(line) ==
    IF \A i \in 1..Len(line) : line[i] \notin Whitespace THEN <<line>>
    ELSE LET k == CHOOSE i \in 1..Len(line) :
                    line[i] \in Whitespace /\ \A j \in 1..(i - 1) : line[j] \notin Whitespace
         IN  <<SubSeq(line, 1, k - 1)>> \o split_single(SubSeq(line, k + 1, Len(line)))

\* .split(): the runs of characters that are not white space
RECURSIVE split(_)
split(line) ==
    IF line = <<>> THEN <<>>
    ELSE IF Head(line) \in Whitespace THEN split(Tail(line))
    ELSE LET k == IF \E i \in 1..Len(line) : line[i] \in Whitespace
                  THEN (CHOOSE i \in 1..Len(line) :
                            line[i] \in Whitespace /\ \A j \in 1..(i - 1) : line[j] \notin Whitespace) - 1
                  ELSE Len(line)
         IN  <<SubSeq(line, 1, k)>> \o split(SubSeq(line, k + 1, Len(line)))

\* The lines a registry file may hold: name and hash, with a URL, with
\* other white space, blank, and with one and with four elements.
RegistryLines ==
    { <<"a", " ", "h", "1", "\n">>,
      <<"a", " ", "h", "2", " ", "u", "\n">>,
      <<"b", "\t", "h", "1">>,
      <<" ", "b", " ", " ", "h", "2", "\n">>,
      <<"a", "b", " ", "h", "1", " ", "u", "\n">>,
      <<"\n">>,
      <<" ", "\t", "\n">>,
      <<"a", "\n">>,
      <<"b", " ", "h", "1", " ", "u", " ", "x", "\n">> }

RECURSIVE FilesUpTo(_)
FilesUpTo(n) ==
    IF n = 0 THEN {<<>>}
    ELSE LET shorter == FilesUpTo(n - 1)
         IN  shorter \cup {Append(f, l) : f \in {g \in shorter : Len(g) = n - 1}, l \in RegistryLines}

RegistryFiles == FilesUpTo(MaxLines)

\* The registry and the URLs of the Pooch before load_registry is called:
\* empty, or with entries under a name of the file and under another name.
LoadRegistries ==
    { <<>>,
      [n \in {<<"a">>, <<"o", "l", "d">>} |-> <<"h", "0">>] }

LoadUrls ==
    { <<>>,
      [n \in {<<"a">>, <<"o", "l", "d">>} |-> <<"v">>] }

\* All of fetch's variables but the registry and the URLs.
fetchvars == <<dirs, files, tmpfiles, pc, fname, known_hash, action, err, result, log,
               ntransport, pre, interfered, again, callers, dlarg, processor, url,
               downloader, chosen, calls, hookcalls, installed>>

\* A Pooch that no thread calls fetch on.
LoadInit ==
    /\ registry \in LoadRegistries
    /\ urls \in LoadUrls
    /\ callers = {}
    /\ files = <<>>
    /\ dirs = {}
    /\ tmpfiles = <<>>
    /\ pc = [p \in Procs |-> "idle"]
    /\ fname = [p \in Procs |-> <<>>]
    /\ known_hash = [p \in Procs |-> None]
    /\ action = [p \in Procs |-> <<>>]
    /\ err = [p \in Procs |-> ""]
    /\ result = [p \in Procs |-> <<>>]
    /\ log = [p \in Procs |-> <<>>]
    /\ ntransport = [p \in Procs |-> 0]
    /\ pre = [p \in Procs |-> {}]
    /\ interfered = [p \in Procs |-> FALSE]
    /\ again = [p \in Procs |-> FALSE]
    /\ dlarg = [p \in Procs |-> NoArg]
    /\ processor = [p \in Procs |-> NoArg]
    /\ url = [p \in Procs |-> <<>>]
    /\ downloader = [p \in Procs |-> NoArg]
    /\ chosen = [p \in Procs |-> <<>>]
    /\ calls = [p \in Procs |-> <<>>]
    /\ hookcalls = [p \in Procs |-> <<>>]
    /\ installed = [p \in Procs |-> {}]
    /\ fin = <<>>
    /\ linenum = 0
    /\ lpc = "idle"
    /\ lerr = <<>>

\* elements = line.strip().split()
elements(line) == split(strip(line))

\* if not len(elements) in [0, 2, 3]: the negation of the test
valid_line(line) == Len(elements(line)) \in {0, 2, 3}

\* raise OSError(...), with the number of the line and of its elements
InvalidEntry(num, line) == <<"OSError", num, Len(elements(line))>>

\* All lines are looked at before any is entered: a file with an invalid
\* line fails at once.
load_registry_validated(f) ==
    /\ lpc = "idle"
    /\ fin' = f
    /\ linenum' = 0
    /\ IF \A i \in 1..Len(f) : valid_line(f[i])
       THEN lpc' = "reading" /\ lerr' = <<>>
       ELSE LET k == CHOOSE i \in 1..Len(f) :
                        ~valid_line(f[i]) /\ \A j \in 1..(i - 1) : valid_line(f[j])
            IN  lpc' = "failed" /\ lerr' = InvalidEntry(k, f[k])
    /\ UNCHANGED <<registry, urls, fetchvars>>

\* load_registry(fname): the file is opened; no line is read yet.
load_registry(f) ==
    /\ lpc = "idle"
    /\ fin' = f
    /\ linenum' = 0
    /\ lpc' = "reading"
    /\ lerr' = <<>>
    /\ UNCHANGED <<registry, urls, fetchvars>>

\* One round of "for linenum, line in enumerate(fin)": the line is split,
\* an invalid one raises, a blank one is passed over, and the elements of
\* any other are entered.
ReadLine ==
    /\ lpc = "reading"
    /\ linenum < Len(fin)
    /\ LET line == fin[linenum + 1]
           el == elements(line)
       IN  IF ~valid_line(line)
           THEN /\ lpc' = "failed"
                /\ lerr' = InvalidEntry(linenum + 1, line)
                /\ UNCHANGED <<registry, urls, linenum>>
           ELSE /\ linenum' = linenum + 1
                /\ UNCHANGED <<lpc, lerr>>
                /\ IF el # <<>>
                   THEN /\ urls' = IF Len(el) = 3 THEN Put(urls, el[1], el[3]) ELSE urls
                        /\ registry' = Put(registry, el[1], el[2])
                   ELSE UNCHANGED <<registry, urls>>
    /\ UNCHANGED <<fin, fetchvars>>

\* The file has no more lines: load_registry returns.
EndOfFile ==
    /\ lpc = "reading"
    /\ linenum = Len(fin)
    /\ lpc' = "done"
    /\ UNCHANGED <<registry, urls, fin, linenum, lerr, fetchvars>>

LoadNext ==
    \/ \E f \in RegistryFiles : load_registry(f)
    \/ ReadLine
    \/ EndOfFile

LoadSpec == LoadInit /\ [][LoadNext]_vars


(***************************************************************************)
(* Properties.                                                             *)
(***************************************************************************)
\* The file at the target of p's call is what it was when the call began.
TargetAsBefore(p) ==
    IF pre[p] = {} THEN fname[p] \notin DOMAIN files
    ELSE fname[p] \in DOMAIN files /\ files[fname[p]] \in pre[p]

\* The digest of content, under the algorithm a hash spec names, is the
\* digest the spec holds (compared as the hexadecimal numbers they are).
DigestEqual(content, spec) ==
    /\ spec # None
    /\ spec # EmptySpec
    /\ hash_algorithm(spec) \in {<<a>> : a \in Algorithms}
    /\ ToLower(file_hash(content, hash_algorithm(spec)[1])) = ToLower(hash_digest(spec))

DigestDiffers(content, spec) ==
    /\ spec # None
    /\ spec # EmptySpec
    /\ hash_algorithm(spec) \in {<<a>> : a \in Algorithms}
    /\ ToLower(file_hash(content, hash_algorithm(spec)[1])) # ToLower(hash_digest(spec))

\* C1: whenever a call of fetch has returned (by fetch-only, download or
\* update), the file at storageRoot/name exists, its content passes the
\* check against the hash registered for name, and the path returned is
\* storageRoot/name.
Thm_C1_ReturnedFileVerified ==
    \A p \in Procs :
        pc[p] = "done" =>
            /\ fname[p] \in DOMAIN registry
            /\ fname[p] \in DOMAIN files
            /\ \/ registry[fname[p]] \in {None, EmptySpec}
               \/ DigestEqual(files[fname[p]], registry[fname[p]])
            /\ processor[p] = NoArg => result[p] = full_path(fname[p])

Wit_C1_ReturnedAfterDownload ==
    \E p \in Procs :
        /\ pc[p] = "done"
        /\ action[p][1] = "download"
        /\ ntransport[p] = 1
        /\ registry[fname[p]] = SpecOf(Good, "md5")

\* What a step may do to the target paths.
C2_Step ==
    \A n \in Names :
        (n \in DOMAIN files' /\ (n \notin DOMAIN files \/ files'[n] # files[n])) =>
            \E p \in Procs :
                /\ pc[p] = "move"
                /\ fname[p] = n
                /\ p \in DOMAIN tmpfiles
                /\ files'[n] = tmpfiles[p].content
                /\ \/ registry[n] \in {None, EmptySpec}
                   \/ DigestEqual(files'[n], registry[n])

\* C2: every step that puts a file at a target path, or changes the content
\* of one, is the move of a completely delivered temporary file whose
\* content passed the strict check against the hash registered for that
\* name; no other step (a transfer under way, a failed transfer, a failed
\* check) changes what is at any target path.
Thm_C2_OnlyVerifiedContentAtTarget == [][C2_Step]_vars

Wit_C2_PartialBytesOnlyInTemp ==
    \E p \in Procs :
        /\ pc[p] = "failed"
        /\ err[p] \in TransportFailures
        /\ fname[p] \in DOMAIN files
        /\ files[fname[p]] = Stale
        /\ \E q \in Procs \ {p} : pc[q] = "streaming" /\ tmpfiles[q].content = <<2>>

\* The strict check on mismatching content, and a call ended by it.
C3_Step ==
    \A p \in Procs :
        (/\ pc[p] = "verify"
         /\ pc'[p] # "verify"
         /\ DigestDiffers(tmpfiles[p].content, known_hash[p])) =>
            /\ pc'[p] = "exit"
            /\ err'[p] = "HashMismatch"
            /\ files' = files

C3_Failed ==
    \A p \in Procs :
        (pc[p] = "failed" /\ err[p] = "HashMismatch") =>
            /\ ExceptionClass(err[p]) = "ValueError"
            /\ result[p] = <<>>
            /\ p \notin DOMAIN tmpfiles
            /\ ~interfered[p] => TargetAsBefore(p)

\* C3: when the transport has delivered content whose digest differs from
\* the expected one, the check raises HashMismatch and changes no file; and
\* a call that failed with HashMismatch (a ValueError) has no temporary file
\* left and, unless another call installed onto the same target meanwhile,
\* its target is what it was when the call began: the same content if there
\* was a file, no file if there was none.
Thm_C3_MismatchFailsTargetKept == []C3_Failed /\ [][C3_Step]_vars

Wit_C3_MismatchOnUpdate ==
    \E p \in Procs :
        /\ pc[p] = "failed"
        /\ err[p] = "HashMismatch"
        /\ action[p][1] = "update"
        /\ pre[p] = {Stale}
        /\ ~interfered[p]

\* The way out of the with block under a downloader's exception, and a
\* call ended by it.
C4_Step ==
    \A p \in Procs :
        (pc[p] = "exit" /\ pc'[p] # "exit" /\ err[p] \in TransportFailures) =>
            /\ pc'[p] = "failed"
            /\ err'[p] = err[p]
            /\ files' = files

C4_Failed ==
    \A p \in Procs :
        (pc[p] = "failed" /\ err[p] \in TransportFailures) =>
            /\ ntransport[p] = 1
            /\ result[p] = <<>>
            /\ p \notin DOMAIN tmpfiles
            /\ ~interfered[p] => TargetAsBefore(p)

\* C4: an exception raised by the downloader leaves the with block and
\* fetch unchanged, and a call that failed with a transport failure has no
\* temporary file left, returned nothing and, unless another call installed
\* onto the same target meanwhile, its target is what it was when the call
\* began.
Thm_C4_TransportFailurePropagates == []C4_Failed /\ [][C4_Step]_vars

Wit_C4_ConnectionFailureOnUpdate ==
    \E p \in Procs :
        /\ pc[p] = "failed"
        /\ err[p] = "ConnectionFailure"
        /\ pre[p] = {<<1>>}
        /\ ~interfered[p]

\* C5: a call that has ended, by returning or by any exception, has left no
\* temporary file behind.
Thm_C5_NoTempFileAfterCall ==
    \A p \in Procs : pc[p] \in {"done", "failed"} => p \notin DOMAIN tmpfiles

Wit_C5_EndedBothWays ==
    /\ pc["p1"] = "done"
    /\ action["p1"][1] = "download"
    /\ pc["p2"] = "failed"
    /\ err["p2"] = "Timeout"

\* C6: a call of fetch for a name that the registry does not hold is never
\* past the registry check: it has failed with NotInRegistry (a ValueError)
\* and returned nothing, whether or not a file of that name is in the
\* storage and whether or not the storage root exists.
Thm_C6_NotInRegistryFails ==
    \A p \in Procs :
        (fname[p] # <<>> /\ fname[p] \notin DOMAIN registry) =>
            /\ pc[p] = "failed"
            /\ err[p] = "NotInRegistry"
            /\ ExceptionClass(err[p]) = "ValueError"
            /\ result[p] = <<>>

Wit_C6_UnregisteredButLocal ==
    \E p \in Procs :
        /\ pc[p] = "failed"
        /\ err[p] = "NotInRegistry"
        /\ fname[p] \in DOMAIN files


\* C7: a call of fetch(name) that follows, by the same caller, a call of
\* fetch(name) that returned after a download or an update resolves to
\* "fetch": it never enters the transfer, invokes no downloader, emits no
\* log record, returns the same path storageRoot/name and, unless another
\* call installed onto the target meanwhile, leaves the file as it was.
Thm_C7_SecondFetchIsFetchOnly ==
    \A p \in Procs :
        again[p] =>
            /\ pc[p] \in {"makedirs", "resolve", "process", "done"}
            /\ ntransport[p] = 0
            /\ log[p] = <<>>
            /\ pc[p] = "done" =>
                /\ action[p] = <<"fetch", "Fetching">>
                /\ processor[p] = NoArg => result[p] = full_path(fname[p])
                /\ ~interfered[p] => TargetAsBefore(p)

Wit_C7_SecondFetchReturned ==
    \E p \in Procs :
        /\ again[p]
        /\ pc[p] = "done"
        /\ pre[p] = {Good}

\* The step of fetch that calls download_action.
C8_Step ==
    \A p \in Procs :
        (pc[p] = "resolve" /\ pc'[p] # "resolve") =>
            LET n == fname[p]
                h == registry[n]
                exists == n \in DOMAIN files
                same == h \in {None, EmptySpec} \/ DigestEqual(files[n], h)
                differs == DigestDiffers(files[n], h)
            IN  /\ action'[p] = <<"download", "Downloading">> <=> ~exists
                /\ action'[p] = <<"update", "Updating">> <=> (exists /\ differs)
                /\ action'[p] = <<"fetch", "Fetching">> <=> (exists /\ same)

\* C8: whatever the file name, the hash spec registered for it and the
\* state of the storage, the call of download_action in fetch returns
\* ("download", "Downloading") exactly when no file is at the path,
\* ("update", "Updating") exactly when a file is there and the non-strict
\* comparison is false, and ("fetch", "Fetching") exactly when a file is
\* there and the comparison is true.
Thm_C8_DownloadActionCases == [][C8_Step]_vars

Wit_C8_ResolvedToUpdate ==
    \E p \in Procs :
        /\ pc[p] = "parent"
        /\ action[p] = <<"update", "Updating">>
        /\ registry[fname[p]] = ToUpper(file_hash(Good, "sha256"))
        /\ files[fname[p]] = <<1>>

\* A returned call that began on a stale file, and the move of an update.
C9_Returned ==
    \A p \in Procs :
        (/\ pc[p] = "done"
         /\ pre[p] # {}
         /\ \A c \in pre[p] : DigestDiffers(c, registry[fname[p]])
         /\ ~interfered[p]) =>
            /\ action[p] = <<"update", "Updating">>
            /\ ntransport[p] = 1
            /\ fname[p] \in DOMAIN files
            /\ DigestEqual(files[fname[p]], registry[fname[p]])
            /\ files[fname[p]] \notin pre[p]

C9_Step ==
    \A p \in Procs :
        (pc[p] = "move" /\ pc'[p] # "move" /\ action[p][1] = "update") =>
            /\ fname[p] \in DOMAIN files'
            /\ files'[fname[p]] = tmpfiles[p].content
            /\ p \notin DOMAIN tmpfiles'

\* C9: a call that began with a file at the target whose digest differs
\* from the expected one and that returned, no other call having installed
\* onto the target meanwhile, resolved to "update", invoked the downloader
\* once, and left at the target content that matches the expected hash and
\* is not the stale content; and the move that ends an update puts the
\* delivered content at the target.
Thm_C9_UpdateReplacesStale == []C9_Returned /\ [][C9_Step]_vars

Wit_C9_StaleReplaced ==
    \E p \in Procs :
        /\ pc[p] = "done"
        /\ pre[p] = {Stale}
        /\ ~interfered[p]
        /\ files[fname[p]] = Good

\* C10: no call of fetch fails because a directory it creates is already
\* there.
Cex_C10_NoFileExistsError ==
    \A p \in Procs : err[p] # "FileExistsError"

\* The calls of both callers are for the same name, both resolved to a
\* transfer and invoked the downloader, and both returned.
C11_BothSucceeded ==
    /\ fname["p1"] = fname["p2"]
    /\ \A p \in Procs :
          /\ pc[p] = "done"
          /\ action[p][1] \in {"download", "update"}
          /\ ntransport[p] = 1
          /\ installed[p] # {}

\* When both succeeded, the target holds what one of the two renames
\* installed.
C11_Final ==
    C11_BothSucceeded =>
        /\ fname["p1"] \in DOMAIN files
        /\ files[fname["p1"]] \in installed["p1"] \cup installed["p2"]

\* A rename puts the renaming call's content at the target whatever another
\* call installed there before, and nothing but a rename changes the target:
\* the content of a target is that of the rename that happened last.
C11_Step ==
    /\ \A p \in Procs :
          (pc[p] = "move" /\ pc'[p] # "move") =>
              /\ fname[p] \in DOMAIN files'
              /\ files'[fname[p]] = tmpfiles[p].content
              /\ installed'[p] = {tmpfiles[p].content}
    /\ \A n \in Names :
          (n \in DOMAIN files' /\ (n \notin DOMAIN files \/ files[n] # files'[n])) =>
              \E p \in Procs : pc[p] = "move" /\ pc'[p] # "move" /\ fname[p] = n

\* C11: calls of fetch for one name are not mutually excluded: two calls can
\* both resolve to a download or an update and both invoke the downloader;
\* each rename replaces what is at the target, whoever put it there, so that
\* when both calls succeed the target holds the content of the last rename.
Thm_C11_LastRenameWins == []C11_Final /\ [][C11_Step]_vars

\* Both calls transferred and returned, they installed different contents,
\* and the target holds the content of the second rename.
Wit_C11_BothTransferredLastWon ==
    /\ C11_BothSucceeded
    /\ interfered["p1"] /\ interfered["p2"]
    /\ installed["p1"] # installed["p2"]
    /\ files[fname["p1"]] \in installed["p2"]

\* The hash spec names an algorithm that is not a supported one.
UnsupportedSpec(spec) ==
    /\ spec \notin {None, EmptySpec}
    /\ \/ Len(hash_algorithm(spec)) # 1
       \/ hash_algorithm(spec)[1] \notin Algorithms

\* p's call is for a name whose registry entry names an unsupported algorithm.
C12_Call(p) ==
    /\ pc[p] # "idle"
    /\ fname[p] \in DOMAIN registry
    /\ UnsupportedSpec(registry[fname[p]])

C13_FromBase(u) == Len(u) >= Len(BaseUrl) /\ SubSeq(u, 1, Len(BaseUrl)) = BaseUrl

\* C13: the URL that a downloader is called with is the URL that Pooch.urls
\* holds for the name when it holds one, no part of it coming from base_url,
\* and otherwise base_url followed by the name.
Thm_C13_EffectiveUrl ==
    \A p \in Procs :
        \A i \in DOMAIN calls[p] :
            LET u == calls[p][i][2]
            IN  /\ fname[p] \in DOMAIN urls =>
                      (u = urls[fname[p]] /\ (C13_FromBase(u) <=> C13_FromBase(urls[fname[p]])))
                /\ fname[p] \notin DOMAIN urls =>
                      (u = BaseUrl \o NameString(fname[p]) /\ C13_FromBase(u))
                /\ fname[p] = NameB => u = <<"ftp", "://", "other.org/", "b.dat">>
                /\ fname[p] = NameC => u = <<"https", "://", "base.org/data/", "sub", "/", "c">>

\* One downloader was called with a file's own URL, another with base_url
\* and the name.
Wit_C13_BothKindsOfUrl ==
    \E p, q \in Procs :
        /\ fname[p] = NameB /\ Len(calls[p]) = 1 /\ calls[p][1][2] = OverrideUrl
        /\ fname[q] = NameC /\ Len(calls[q]) = 1 /\ calls[q][1][2][1] = "https"

\* C14: a call that was passed a downloader calls that downloader and no
\* other, and never calls choose_downloader; choose_downloader is called only
\* by a call that was passed none and resolved to a download or an update,
\* once, with the URL of the file, and the downloader it returns is the one
\* the call invokes; a call that resolved to "fetch" chooses and invokes none.
Thm_C14_ExplicitDownloaderWins ==
    \A p \in Procs :
        /\ dlarg[p] # NoArg =>
              /\ chosen[p] = <<>>
              /\ \A i \in DOMAIN calls[p] : calls[p][i][1] = dlarg[p]
        /\ chosen[p] # <<>> =>
              /\ dlarg[p] = NoArg
              /\ action[p] # <<>> /\ action[p][1] \in {"download", "update"}
              /\ chosen[p] = <<url[p]>>
              /\ \A i \in DOMAIN calls[p] : calls[p][i][1] = choose_downloader(url[p])
        /\ calls[p] # <<>> => (dlarg[p] # NoArg \/ chosen[p] # <<>>)
        /\ (action[p] # <<>> /\ action[p][1] = "fetch") =>
              (chosen[p] = <<>> /\ calls[p] = <<>>)

\* A call that was passed a downloader, for a file with a URL of its own
\* that choose_downloader would pick the FTP downloader for, returned after
\* an update by the downloader it was passed.
Wit_C14_PassedDownloaderInvoked ==
    \E p \in Procs :
        /\ pc[p] = "done"
        /\ dlarg[p] = CustomDownloader
        /\ fname[p] = NameB
        /\ action[p][1] = "update"
        /\ calls[p] = << <<CustomDownloader, OverrideUrl>> >>
        /\ chosen[p] = <<>>
        /\ choose_downloader(url[p]) = "FTPDownloader"

\* A returned call that was passed a processor called it once, with the
\* path, the action and the Pooch, and returned what the processor returned.
C15_Returned ==
    \A p \in Procs :
        /\ Len(hookcalls[p]) <= 1
        /\ processor[p] = NoArg => hookcalls[p] = <<>>
        /\ (pc[p] = "done" /\ processor[p] # NoArg) =>
              /\ action[p][1] \in {"download", "update", "fetch"}
              /\ action[p][1] = "fetch" <=> ntransport[p] = 0
              /\ action[p][1] = "download" <=> (ntransport[p] = 1 /\ pre[p] = {})
              /\ hookcalls[p] = << <<full_path(fname[p]), action[p][1], "pooch">> >>
              /\ result[p] = HookReturn(hookcalls[p][1])
              /\ result[p] # full_path(fname[p])

\* The action of a call is set when the call resolves and not changed by
\* the transfer; the processor is called by the step that returns.
C15_Step ==
    \A p \in Procs :
        /\ (action'[p] # action[p] /\ action'[p] # <<>>) => pc[p] = "resolve"
        /\ (hookcalls'[p] # hookcalls[p] /\ hookcalls'[p] # <<>>) =>
              /\ pc[p] = "process" /\ pc'[p] = "done"
              /\ err[p] = ""
              /\ hookcalls'[p] = << <<full_path(fname[p]), action[p][1], "pooch">> >>

\* C15: a call that was passed a processor and returns calls the processor
\* exactly once, whether it resolved to "download", "update" or "fetch", with
\* the path of the file, the action as download_action gave it before any
\* transfer, and the Pooch; what the processor returns is what fetch returns,
\* in place of the path.
Thm_C15_HookCalledOnce == []C15_Returned /\ [][C15_Step]_vars

\* A call with a processor found a matching file, transferred nothing,
\* called the processor with "fetch" and returned its value.
Wit_C15_HookOnFetchOnly ==
    \E p \in Procs :
        /\ pc[p] = "done"
        /\ processor[p] = Hook
        /\ ntransport[p] = 0
        /\ hookcalls[p] = << <<full_path(fname[p]), "fetch", "pooch">> >>
        /\ result[p] = HookReturn(hookcalls[p][1])

\* p's call is for a name whose registry entry has no hash.
C16_Call(p) ==
    /\ pc[p] # "idle"
    /\ fname[p] \in DOMAIN registry
    /\ registry[fname[p]] \in {None, EmptySpec}

C16_State ==
    \A p \in Procs :
        C16_Call(p) =>
            /\ err[p] \notin {"HashMismatch", "UnsupportedAlgorithm"}
            /\ pre[p] # {} =>
                  /\ pc[p] # "failed"
                  /\ ntransport[p] = 0
                  /\ action[p] # <<>> => action[p][1] = "fetch"
                  /\ TargetAsBefore(p)
            /\ pre[p] = {} =>
                  /\ action[p] # <<>> => action[p][1] = "download"
                  /\ pc[p] = "failed" => err[p] \in TransportFailures
                  /\ pc[p] \in {"done", "process"} =>
                        /\ ntransport[p] = 1
                        /\ installed[p] # {}
                        /\ fname[p] \in DOMAIN files
                        /\ files[fname[p]] \in installed[p]

\* The check of what the downloader delivered passes whatever it is, and
\* the move puts it at the target.
C16_Step ==
    \A p \in Procs :
        C16_Call(p) =>
            /\ (pc[p] = "verify" /\ pc'[p] # "verify") => (pc'[p] = "move" /\ err'[p] = "")
            /\ (pc[p] = "move" /\ pc'[p] # "move") => files'[fname[p]] = tmpfiles[p].content

\* C16: for a name whose hash spec is None or empty the hash check is true
\* whatever the file holds: a call that finds a file at the target resolves
\* to "fetch", invokes no downloader, leaves the file as it is and returns;
\* a call that finds none resolves to "download", and whatever the
\* downloader delivers passes the check and is installed at the target.
Thm_C16_NoHashAlwaysMatches == []C16_State /\ [][C16_Step]_vars

\* Without a hash, delivered content that matches none of the hashes of the
\* registries passed the check and was installed.
Wit_C16_AnyBytesInstalled ==
    \E p \in Procs :
        /\ C16_Call(p)
        /\ registry[fname[p]] = EmptySpec
        /\ pc[p] = "done"
        /\ ntransport[p] = 1
        /\ files[fname[p]] = <<2, 2>>
        /\ installed[p] = {<<2, 2>>}

\* The steps of a call that transfers, in their order.
C17_Step ==
    \A p \in Procs :
        /\ (pc'[p] = "streaming" /\ pc[p] # "streaming") =>
              (pc[p] = "transfer" /\ installed[p] = {} /\ p \in DOMAIN tmpfiles)
        /\ (pc'[p] = "verify" /\ pc[p] # "verify") =>
              (pc[p] = "streaming" /\ err[p] = "" /\ ntransport[p] = 1 /\ installed[p] = {})
        /\ (pc'[p] = "move" /\ pc[p] # "move") =>
              /\ pc[p] = "verify"
              /\ err[p] = ""
              /\ hash_matches(tmpfiles[p].content, known_hash[p], TRUE) = "true"
              /\ tmpfiles'[p] = tmpfiles[p]
        /\ (installed'[p] # installed[p] /\ installed'[p] # {}) =>
              /\ pc[p] = "move"
              /\ err[p] = ""
              /\ installed'[p] = {tmpfiles[p].content}
              /\ files'[fname[p]] = tmpfiles[p].content
        /\ (pc'[p] = "done" /\ pc[p] # "done" /\ action'[p][1] \in {"download", "update"}) =>
              /\ pc[p] \in {"exit", "process"}
              /\ err[p] = ""
              /\ installed[p] # {}

\* A call that transfers has moved only what the strict check passed, and
\* has returned only after the move.
C17_State ==
    \A p \in Procs :
        /\ installed[p] # {} =>
              /\ ntransport[p] = 1
              /\ pc[p] \in {"exit", "process", "done"}
              /\ err[p] = ""
              /\ \A c \in installed[p] : hash_matches(c, known_hash[p], TRUE) = "true"
        /\ (pc[p] \in {"process", "done"} /\ action[p][1] \in {"download", "update"}) =>
              installed[p] # {}

\* C17: in a call that needs a transfer the downloader is invoked first,
\* the strict check of the temporary file follows the downloader's return,
\* the move onto the target follows a check that passed, with no error
\* raised, and the call returns only after the move.
Thm_C17_TransferVerifyInstall == []C17_State /\ [][C17_Step]_vars

\* An update ran through: the downloader was invoked, the delivered content
\* passed the check and was moved, and the call returned.
Wit_C17_UpdateRanThrough ==
    \E p \in Procs :
        /\ pc[p] = "done"
        /\ action[p] = <<"update", "Updating">>
        /\ ntransport[p] = 1
        /\ installed[p] = {Good}
        /\ known_hash[p] = SpecOf(Good, "sha256")
        /\ p \notin DOMAIN tmpfiles

\* The failures of the transfer and of the check of what it delivered.
C18_Failures == TransportFailures \cup {"HashMismatch", "UnsupportedAlgorithm"}

C18_State ==
    \A p \in Procs :
        /\ ntransport[p] <= 1
        /\ Len(calls[p]) = ntransport[p]
        /\ (pc[p] = "failed" /\ ntransport[p] = 1) =>
              (err[p] \in C18_Failures /\ result[p] = <<>> /\ installed[p] = {})

\* The downloader is invoked by a call that has not invoked it; a failure
\* of the transfer or of the check leads out of the with block and from
\* there out of fetch, with the same error; nothing but a new call follows.
C18_Step ==
    \A p \in Procs :
        /\ ntransport'[p] > ntransport[p] => (pc[p] = "transfer" /\ ntransport[p] = 0)
        /\ (pc'[p] = "transfer" /\ pc[p] # "transfer") => (pc[p] = "mktemp" /\ ntransport[p] = 0)
        /\ (pc[p] \in {"streaming", "verify"} /\ err'[p] # "") =>
              (pc'[p] = "exit" /\ err'[p] \in C18_Failures)
        /\ (pc[p] = "exit" /\ err[p] # "" /\ pc'[p] # "exit") =>
              (pc'[p] = "failed" /\ err'[p] = err[p] /\ result'[p] = <<>>)
        /\ (pc[p] = "failed" /\ (pc'[p] # "failed" \/ err'[p] # err[p])) =>
              (ntransport'[p] = 0 /\ calls'[p] = <<>> /\ pc'[p] \in {"makedirs", "failed"})

\* C18: a call of fetch invokes the downloader at most once; when the
\* downloader or the check of what it delivered raises, the call ends with
\* that error: no second transfer follows and no value is returned.
Thm_C18_NoRetry == []C18_State /\ [][C18_Step]_vars

\* A download ended with the downloader's timeout after one invocation.
Wit_C18_FailedAfterOneAttempt ==
    \E p \in Procs :
        /\ pc[p] = "failed"
        /\ err[p] = "Timeout"
        /\ action[p] = <<"download", "Downloading">>
        /\ ntransport[p] = 1
        /\ Len(calls[p]) = 1
        /\ result[p] = <<>>

C19_State ==
    \A p \in Procs :
        /\ action[p] = <<>> => log[p] = <<>>
        /\ action[p] # <<>> =>
              /\ action[p][1] = "download" => log[p] = <<"Downloading">>
              /\ action[p][1] = "update" => log[p] = <<"Updating">>
              /\ action[p][1] = "fetch" => log[p] = <<>>
        /\ ntransport[p] >= 1 => Len(log[p]) = 1
        /\ (pc[p] = "failed" /\ err[p] = "HashMismatch") => Len(log[p]) = 1

\* The record is emitted when the call resolves, and it is there when
\* the downloader is invoked.
C19_Step ==
    \A p \in Procs :
        /\ (log'[p] # log[p] /\ log'[p] # <<>>) =>
              (pc[p] = "resolve" /\ ntransport[p] = 0 /\ log[p] = <<>>)
        /\ ntransport'[p] > ntransport[p] => (Len(log[p]) = 1 /\ log'[p] = log[p])

\* C19: a call that resolves to a download or an update emits one log
\* record, which begins with "Downloading" or "Updating" respectively,
\* before the downloader is invoked, and emits no other, also when the
\* check of what was delivered then fails; a call that resolves to "fetch"
\* emits no record.
Thm_C19_OneLogRecordPerTransfer == []C19_State /\ [][C19_Step]_vars

\* An update whose delivered content failed the check has emitted its one
\* record.
Wit_C19_LoggedThenMismatch ==
    \E p \in Procs :
        /\ pc[p] = "failed"
        /\ err[p] = "HashMismatch"
        /\ log[p] = <<"Updating">>
        /\ ntransport[p] = 1

\* No step removes a file.
C20_Step == \A n \in Names : n \in DOMAIN files => n \in DOMAIN files'

\* C20: a file that exists below the storage root exists in every later
\* state, whatever calls of fetch run, return or fail; its content may be
\* replaced.
Thm_C20_NeverDeleted == [][C20_Step]_vars

\* An update failed after its transfer, with a concurrent call on the same
\* name still running: the file is at the target as it was.
Wit_C20_KeptThroughFailedUpdate ==
    \E p \in Procs :
        /\ pc[p] = "failed"
        /\ err[p] \in TransportFailures \cup {"HashMismatch"}
        /\ action[p] = <<"update", "Updating">>
        /\ fname[p] \in DOMAIN files
        /\ files[fname[p]] \in pre[p]
        /\ \E q \in Procs \ {p} : fname[q] = fname[p] /\ q \in DOMAIN tmpfiles

\* Every temporary file is in the directory of its call's target, which
\* exists.
C22_State ==
    \A p \in DOMAIN tmpfiles :
        /\ tmpfiles[p].dir = Parent(fname[p])
        /\ tmpfiles[p].dir \in dirs
        /\ fname[p] \in {NameB, NameC} => (tmpfiles[p].dir = SubDir /\ tmpfiles[p].dir # Root)

\* The directory is there in the state in which the temporary file is made.
C22_Step ==
    \A p \in Procs :
        (p \notin DOMAIN tmpfiles /\ p \in DOMAIN tmpfiles') =>
            /\ pc[p] = "mktemp"
            /\ Parent(fname[p]) \in dirs
            /\ tmpfiles'[p].dir = Parent(fname[p])
            /\ dirs' = dirs

\* C22: the temporary file of a transfer is made in the directory that
\* holds the target, which for a name in a subdirectory is the subdirectory
\* and not the storage root, and that directory exists when the temporary
\* file is made.
Thm_C22_TempFileBesideTarget == []C22_State /\ [][C22_Step]_vars

\* A call for a file in the subdirectory, with no file in the storage, is
\* streaming to its temporary file in the subdirectory.
Wit_C22_TempInSubdirectory ==
    \E p \in Procs :
        /\ pc[p] = "streaming"
        /\ fname[p] = NameB
        /\ p \in DOMAIN tmpfiles
        /\ tmpfiles[p].dir = SubDir
        /\ DOMAIN files = {}

C23_State ==
    /\ registry \in Registries \cup {ConcurrentRegistry}
    /\ urls = InitialUrls

C23_Step == registry' = registry /\ urls' = urls

\* C23: no step of a call of fetch changes Pooch.registry or Pooch.urls:
\* whatever calls have run, returned or failed, both are what they were
\* when the Pooch was made.
Thm_C23_FetchKeepsRegistry == []C23_State /\ [][C23_Step]_vars

\* A call returned from a download by a passed downloader while a file of
\* a name that is not in the registry is in the storage; the name is still
\* not in the registry.
Wit_C23_AfterFailedAndReturnedCalls ==
    \E p \in Procs :
        /\ pc[p] = "done"
        /\ ntransport[p] = 1
        /\ dlarg[p] = CustomDownloader
        /\ NameX \in DOMAIN files
        /\ NameX \notin DOMAIN registry
        /\ urls = InitialUrls

\* A call that failed with NotInRegistry did nothing else.
C24_State ==
    \A p \in Procs :
        (pc[p] = "failed" /\ err[p] = "NotInRegistry") =>
            /\ fname[p] \notin DOMAIN registry
            /\ ntransport[p] = 0
            /\ calls[p] = <<>>
            /\ chosen[p] = <<>>
            /\ log[p] = <<>>
            /\ hookcalls[p] = <<>>
            /\ installed[p] = {}
            /\ result[p] = <<>>
            /\ p \notin DOMAIN tmpfiles

\* NotInRegistry is raised by the first step of a call, which changes no
\* directory and no file.
C24_Step ==
    \A p \in Procs :
        (err'[p] = "NotInRegistry" /\ (err[p] # "NotInRegistry" \/ pc[p] # "failed" \/ fname'[p] # fname[p])) =>
            /\ ~Active(p)
            /\ pc'[p] = "failed"
            /\ dirs' = dirs
            /\ files' = files
            /\ tmpfiles' = tmpfiles

\* C24: a call of fetch for a name that is not in the registry fails with
\* NotInRegistry in its first step: no directory is made, the storage root
\* included, no temporary file is made, no downloader is chosen or invoked,
\* no log record is emitted and the processor is not called.
Thm_C24_NotInRegistryNoEffect == []C24_State /\ [][C24_Step]_vars

\* The first call on a storage without a root directory, with a processor,
\* failed with NotInRegistry: there is still no directory.
Wit_C24_StorageRootNotCreated ==
    \E p \in Procs :
        /\ pc[p] = "failed"
        /\ err[p] = "NotInRegistry"
        /\ processor[p] = Hook
        /\ dirs = {}
        /\ tmpfiles = <<>>

\* The file at path n is made, replaced or removed by the step.
C25_Changed(n) ==
    \/ n \in DOMAIN files /\ n \notin DOMAIN files'
    \/ n \notin DOMAIN files /\ n \in DOMAIN files'
    \/ n \in DOMAIN files /\ n \in DOMAIN files' /\ files'[n] # files[n]

\* A step that changes the file at a path is the move of a call for that
\* name, and no other caller takes part in it.
C25_Step ==
    \A n \in DOMAIN files \cup DOMAIN files' :
        C25_Changed(n) =>
            \E p \in Procs :
                /\ fname[p] = n
                /\ pc[p] = "move" /\ pc'[p] = "exit"
                /\ \A q \in Procs \ {p} : pc'[q] = pc[q] /\ fname'[q] = fname[q]
                /\ \A m \in (DOMAIN files \cup DOMAIN files') \ {n} : ~C25_Changed(m)

\* C25: a step of a call of fetch for a name changes the file of no other
\* name: the only step that makes, replaces or removes a file is the move
\* of a call, and the one file it changes is that of the call's name,
\* whatever other calls run at the same time and however the call ends.
Thm_C25_OnlyOwnEntryChanges == [][C25_Step]_vars

\* Two concurrent calls for the two files of the subdirectory both
\* installed: each file holds what the call for its name installed.
Wit_C25_TwoNamesSideBySide ==
    \E p, q \in Procs :
        /\ fname[p] = NameB /\ fname[q] = NameC
        /\ pc[p] = "done" /\ pc[q] = "done"
        /\ installed[p] = {Good}
        /\ installed[q] = {<<2>>}
        /\ files[NameB] = Good
        /\ files[NameC] = <<2>>

\* A call that is ending or has ended with an error has not called the
\* processor.
C26_State ==
    \A p \in Procs :
        (err[p] # "" \/ pc[p] = "failed") => hookcalls[p] = <<>>

\* The processor is called by a call without an error, after its transfer,
\* if it needed one, has been checked and moved and its temporary file is
\* gone.
C26_Step ==
    \A p \in Procs :
        (hookcalls'[p] # hookcalls[p] /\ hookcalls'[p] # <<>>) =>
            /\ err[p] = "" /\ err'[p] = ""
            /\ pc[p] = "process"
            /\ p \notin DOMAIN tmpfiles
            /\ action[p][1] \in {"download", "update"} => (ntransport[p] = 1 /\ installed[p] # {})

\* C26: a call of fetch that fails, by its downloader or by the check of
\* what was delivered, does not call the processor; the processor is called
\* only by a call that got through stream_download without an error, or
\* that needed no transfer.
Thm_C26_NoHookOnFailure == []C26_State /\ [][C26_Step]_vars

\* Calls with a processor failed after the transfer, by the downloader's
\* error or by the check: the processor was not called.
Wit_C26_FailedWithHookUncalled ==
    \E p \in Procs :
        /\ pc[p] = "failed"
        /\ err[p] \in {"HashMismatch", "ConnectionFailure"}
        /\ processor[p] = Hook
        /\ ntransport[p] = 1
        /\ hookcalls[p] = <<>>
        /\ result[p] = <<>>

\* The last of the first upto lines of the file that has k elements or
\* more and the name, 0 if there is none.
C21_LastWith(name, k, upto) ==
    LET with == {i \in 1..upto : Len(elements(fin[i])) >= k /\ elements(fin[i])[1] = name}
    IN  IF with = {} THEN 0 ELSE CHOOSE i \in with : \A j \in with : j <= i

\* What the lines gone through have left in the registry and the URLs.
C21_State ==
    /\ linenum <= Len(fin)
    /\ lpc = "done" => linenum = Len(fin)
    /\ lpc = "failed" => (lerr # <<>> /\ lerr[1] = "OSError" /\ linenum < Len(fin))
    /\ lpc # "failed" => lerr = <<>>
    /\ \A i \in 1..linenum :
          LET el == elements(fin[i])
          IN  /\ Len(el) \in {0, 2, 3}
              /\ Len(el) >= 2 =>
                    /\ el[1] \in DOMAIN registry
                    /\ registry[el[1]] = elements(fin[C21_LastWith(el[1], 2, linenum)])[2]
              /\ Len(el) = 3 =>
                    /\ el[1] \in DOMAIN urls
                    /\ urls[el[1]] = elements(fin[C21_LastWith(el[1], 3, linenum)])[3]
    /\ (linenum >= 1 /\ fin[linenum] = <<" ", "b", " ", " ", "h", "2", "\n">>) =>
          (registry[<<"b">>] = <<"h", "2">> /\ <<"b">> \notin DOMAIN urls)
    /\ (linenum >= 1 /\ fin[linenum] = <<"a", "b", " ", "h", "1", " ", "u", "\n">>) =>
          (registry[<<"a", "b">>] = <<"h", "1">> /\ urls[<<"a", "b">>] = <<"u">>)

\* What going through one line changes.
C21_Step ==
    /\ (lpc = "reading" /\ linenum' = linenum + 1) =>
          LET el == elements(fin[linenum + 1])
          IN  /\ Len(el) \in {0, 2, 3}
              /\ el = <<>> => (registry' = registry /\ urls' = urls)
              /\ Len(el) \in {2, 3} =>
                    /\ DOMAIN registry' = DOMAIN registry \cup {el[1]}
                    /\ registry'[el[1]] = el[2]
                    /\ \A n \in DOMAIN registry \ {el[1]} : registry'[n] = registry[n]
              /\ Len(el) = 2 => urls' = urls
              /\ Len(el) = 3 =>
                    /\ DOMAIN urls' = DOMAIN urls \cup {el[1]}
                    /\ urls'[el[1]] = el[3]
                    /\ \A n \in DOMAIN urls \ {el[1]} : urls'[n] = urls[n]
    /\ (lpc = "reading" /\ lpc' = "failed") =>
          /\ Len(elements(fin[linenum + 1])) \notin {0, 2, 3}
          /\ lerr' = <<"OSError", linenum + 1, Len(elements(fin[linenum + 1]))>>
    /\ (lpc = "reading" /\ lpc' = "done") =>
          \A i \in 1..Len(fin) : Len(elements(fin[i])) \in {0, 2, 3}

\* C21: load_registry goes through the lines of the file in order.  A
\* line whose white space separates two or three elements enters the first
\* as a name with the second as its hash into the registry, and with the
\* third, if there is one, as its URL into the URLs, in place of what the
\* name had; entries under other names stay as they are.  A line of white
\* space only changes nothing.  A line with one element or with more than
\* three raises an OSError; load_registry returns only when no line did.
Thm_C21_LoadRegistryAddsEntries == []C21_State /\ [][C21_Step]_vars

\* A file of two lines, one with a URL and one with blanks before the name
\* and two blanks before the hash, was loaded into a registry that had the
\* first name and another one: the other one is kept.
Wit_C21_LoadedBesideOldEntries ==
    /\ lpc = "done"
    /\ fin = << <<"a", " ", "h", "2", " ", "u", "\n">>, <<" ", "b", " ", " ", "h", "2", "\n">> >>
    /\ DOMAIN registry = {<<"a">>, <<"b">>, <<"o", "l", "d">>}
    /\ registry[<<"a">>] = <<"h", "2">>
    /\ registry[<<"b">>] = <<"h", "2">>
    /\ registry[<<"o", "l", "d">>] = <<"h", "0">>
    /\ urls = [n \in {<<"a">>} |-> <<"u">>]

\* load_registry raised at line lerr[2]: the lines before it are in the
\* registry and the URLs.
C27_State ==
    lpc = "failed" =>
        LET k == lerr[2]
        IN  /\ k \in 1..Len(fin)
            /\ ~valid_line(fin[k])
            /\ \A i \in 1..(k - 1) :
                  LET el == elements(fin[i])
                  IN  /\ valid_line(fin[i])
                      /\ Len(el) >= 2 =>
                            /\ el[1] \in DOMAIN registry
                            /\ registry[el[1]] = elements(fin[C21_LastWith(el[1], 2, k - 1)])[2]
                      /\ Len(el) = 3 =>
                            /\ el[1] \in DOMAIN urls
                            /\ urls[el[1]] = elements(fin[C21_LastWith(el[1], 3, k - 1)])[3]

\* The raise takes nothing back, and nothing follows it.
C27_Step ==
    (lpc' = "failed" \/ lpc = "failed") => (registry' = registry /\ urls' = urls)

\* C27: when load_registry meets a line with an invalid number of elements
\* and raises OSError, the names, hashes and URLs of the lines before that
\* line are in the registry and the URLs, and they stay there.
Thm_C27_LoadRegistryNotAtomic == []C27_State /\ [][C27_Step]_vars

\* The second line of a file had four elements: load_registry raised, and
\* the name of the first line, which the empty registry did not have, is in
\* the registry and the URLs.
Wit_C27_EarlierLineStays ==
    /\ lpc = "failed"
    /\ lerr = <<"OSError", 2, 4>>
    /\ fin[1] = <<"a", "b", " ", "h", "1", " ", "u", "\n">>
    /\ registry = [n \in {<<"a", "b">>} |-> <<"h", "1">>]
    /\ urls = [n \in {<<"a", "b">>} |-> <<"u">>]

====
